---- MODULE Spec2Model ----
(***************************************************************************)
(* Model of src/timer_app.py: the TimerApp class of the desktop timer and  *)
(* stopwatch.  The state is the fields of TimerApp, the text of the entry  *)
(* and display widgets, the Tk queue of pending `after` callbacks, the     *)
(* modal message box that is open, and whether the root window exists.     *)
(* Text is a sequence of one-character strings, so that parsing and        *)
(* formatting are computed character by character.                         *)
(***************************************************************************)
EXTENDS Integers, Sequences, FiniteSets, TLC

VARIABLES
    timer_seconds,      \* self.timer_seconds
    timer_running,      \* self.timer_running
    timer_job,          \* self.timer_job: None or the id root.after returned
    stopwatch_seconds,  \* self.stopwatch_seconds
    stopwatch_running,  \* self.stopwatch_running
    stopwatch_job,      \* self.stopwatch_job
    mode,               \* self.mode (tk.StringVar)
    entry,              \* text of self.time_entry
    display,            \* text of self.display_label
    after_queue,        \* Tk's pending `after` callbacks: records [id, fn]
    dialog,             \* the modal messagebox that is open, or "none"
    window,             \* "open" until root.destroy()
    notification,       \* module global `notification`: "plyer" or "None"
    notify_count,       \* calls of notify_finished since the last countdown start
    desktop_result,     \* outcome of the last notification.notify attempt
    event,              \* the handler the event loop ran last
    text,               \* SpecParse: the entry text handed to the parser
    result,             \* SpecParse: what parse_time_input did with it
    shown_seconds       \* SpecRender: the counter value handed to the renderer

vars == <<timer_seconds, timer_running, timer_job, stopwatch_seconds,
          stopwatch_running, stopwatch_job, mode, entry, display, after_queue,
          dialog, window, notification, notify_count, desktop_result, event,
          text, result, shown_seconds>>

appVars == <<timer_seconds, timer_running, timer_job, stopwatch_seconds,
             stopwatch_running, stopwatch_job, mode, entry, display,
             after_queue, dialog, window, notification, notify_count,
             desktop_result, event>>

parseVars == <<text, result, shown_seconds>>

----------------------------------------------------------------------------
(* Bounds of the exploration *)

\* longest entry text handed to the parser in SpecParse
MaxLen == 5
\* longest countdown, in seconds, that Start is explored with
MaxDuration == 3
\* stopwatch ticks are explored up to this many seconds
MaxStopwatch == 3
\* SpecRender renders every counter value of up to this many whole hours
MaxHours == 2

----------------------------------------------------------------------------
(* Text: str.strip, str.split, int() and the f-string format *)

\* Python's None for timer_job / stopwatch_job; callback ids start at 1
None == 0

Digits == <<"0", "1", "2", "3", "4", "5", "6", "7", "8", "9">>

IsDigit(c) == \E i \in 1..10 : Digits[i] = c

DigitValue(c) == (CHOOSE i \in 1..10 : Digits[i] = c) - 1

\* the characters str.strip() and int() treat as whitespace
IsSpace(c) == c = " "

RECURSIVE LStrip(_)
LStrip(s) ==
    IF s # <<>> /\ IsSpace(Head(s)) THEN LStrip(Tail(s)) ELSE s

RECURSIVE RStrip(_)
RStrip(s) ==
    IF s # <<>> /\ IsSpace(s[Len(s)])
    THEN RStrip(SubSeq(s, 1, Len(s) - 1))
    ELSE s

\* str.strip()
Strip(s) == RStrip(LStrip(s))

\* str.split(sep): always at least one part; empty parts are kept
RECURSIVE Split(_, _)
Split(s, sep) ==
    IF \E i \in 1..Len(s) : s[i] = sep
    THEN LET i == CHOOSE k \in 1..Len(s) :
                    s[k] = sep /\ \A j \in 1..(k - 1) : s[j] # sep
         IN  <<SubSeq(s, 1, i - 1)>> \o Split(SubSeq(s, i + 1, Len(s)), sep)
    ELSE <<s>>

\* value of a run of digits and underscores, most significant first
RECURSIVE DigitsValue(_)
DigitsValue(s) ==
    IF s = <<>> THEN 0
    ELSE IF s[Len(s)] = "_" THEN DigitsValue(SubSeq(s, 1, Len(s) - 1))
    ELSE 10 * DigitsValue(SubSeq(s, 1, Len(s) - 1)) + DigitValue(s[Len(s)])

\* the body of an int literal: digits, single underscores only between digits
IsIntBody(s) ==
    /\ s # <<>>
    /\ \A i \in 1..Len(s) : IsDigit(s[i]) \/ s[i] = "_"
    /\ IsDigit(s[1]) /\ IsDigit(s[Len(s)])
    /\ \A i \in 1..(Len(s) - 1) : ~(s[i] = "_" /\ s[i + 1] = "_")

\* int(s): surrounding whitespace, an optional sign, then the digits;
\* anything else raises ValueError
IntParse(s) ==
    LET t    == Strip(s)
        sign == IF t # <<>> /\ t[1] = "-" THEN -1 ELSE 1
        body == IF t # <<>> /\ t[1] \in {"-", "+"} THEN Tail(t) ELSE t
    IN  IF IsIntBody(body)
        THEN [ok |-> TRUE, value |-> sign * DigitsValue(body)]
        ELSE [ok |-> FALSE, value |-> 0]

\* decimal digits of n >= 0
RECURSIVE Decimal(_)
Decimal(n) ==
    IF n < 10 THEN <<Digits[n + 1]>>
    ELSE Decimal(n \div 10) \o <<Digits[(n % 10) + 1]>>

\* the format spec :02d for n >= 0
Pad2(n) == IF n < 10 THEN <<"0">> \o Decimal(n) ELSE Decimal(n)

----------------------------------------------------------------------------
(* parse_time_input *)

Accept(n) == [ok |-> TRUE, value |-> n, error |-> ""]

Reject(msg) == [ok |-> FALSE, value |-> 0, error |-> msg]

BadLiteral == Reject("invalid literal for int() with base 10")

\* ParseMinutes without the sign check
ParseMinutes_NoSignCheck(parts) ==
    LET minutes == IntParse(parts[1])
    IN  IF ~minutes.ok THEN BadLiteral
        ELSE Accept(minutes.value * 60)

ParseMinutes(parts) ==
    LET minutes == IntParse(parts[1])
    IN  IF ~minutes.ok THEN BadLiteral
        ELSE IF minutes.value < 0 THEN Reject("Minutes must be >= 0")
        ELSE Accept(minutes.value * 60)

\* ParseMinSec with the seconds bound off by one: 60 passes
ParseMinSec_Sixty(parts) ==
    LET minutes == IntParse(parts[1])
        seconds == IntParse(parts[2])
    IN  IF ~minutes.ok \/ ~seconds.ok THEN BadLiteral
        ELSE IF minutes.value < 0
                 \/ ~(0 <= seconds.value /\ seconds.value <= 60)
        THEN Reject("Minutes must be >= 0 and seconds between 0-59")
        ELSE Accept(minutes.value * 60 + seconds.value)

ParseMinSec(parts) ==
    LET minutes == IntParse(parts[1])
        seconds == IntParse(parts[2])
    IN  IF ~minutes.ok \/ ~seconds.ok THEN BadLiteral
        ELSE IF minutes.value < 0
                 \/ ~(0 <= seconds.value /\ seconds.value < 60)
        THEN Reject("Minutes must be >= 0 and seconds between 0-59")
        ELSE Accept(minutes.value * 60 + seconds.value)

\* ParseHourMinSec with hours weighted like minutes
ParseHourMinSec_HoursAsMinutes(parts) ==
    LET hours   == IntParse(parts[1])
        minutes == IntParse(parts[2])
        seconds == IntParse(parts[3])
    IN  IF ~hours.ok \/ ~minutes.ok \/ ~seconds.ok THEN BadLiteral
        ELSE IF hours.value < 0
                 \/ ~(0 <= minutes.value /\ minutes.value < 60)
                 \/ ~(0 <= seconds.value /\ seconds.value < 60)
        THEN Reject("Hours must be >= 0; minutes, seconds between 0-59")
        ELSE Accept(hours.value * 60 + minutes.value * 60 + seconds.value)

ParseHourMinSec(parts) ==
    LET hours   == IntParse(parts[1])
        minutes == IntParse(parts[2])
        seconds == IntParse(parts[3])
    IN  IF ~hours.ok \/ ~minutes.ok \/ ~seconds.ok THEN BadLiteral
        ELSE IF hours.value < 0
                 \/ ~(0 <= minutes.value /\ minutes.value < 60)
                 \/ ~(0 <= seconds.value /\ seconds.value < 60)
        THEN Reject("Hours must be >= 0; minutes, seconds between 0-59")
        ELSE Accept(hours.value * 3600 + minutes.value * 60 + seconds.value)

\* parse_time_input applied to the entry text t: Accept(seconds), or
\* Reject(message) where the code raises ValueError
parse_time_input(t) ==
    LET stripped == Strip(t)
        parts    == Split(stripped, ":")
    IN  IF stripped = <<>> THEN Reject("Empty time input")
        ELSE IF Len(parts) = 1 THEN ParseMinutes(parts)
        ELSE IF Len(parts) = 2 THEN ParseMinSec(parts)
        ELSE IF Len(parts) = 3 THEN ParseHourMinSec(parts)
        ELSE Reject("Invalid format; use M, MM:SS, or HH:MM:SS")

----------------------------------------------------------------------------
(* The application state as one record, so that a method is an operator    *)
(* from the state it is called in to the state it returns in               *)

Self ==
    [timer_seconds     |-> timer_seconds,
     timer_running     |-> timer_running,
     timer_job         |-> timer_job,
     stopwatch_seconds |-> stopwatch_seconds,
     stopwatch_running |-> stopwatch_running,
     stopwatch_job     |-> stopwatch_job,
     mode              |-> mode,
     entry             |-> entry,
     display           |-> display,
     after_queue       |-> after_queue,
     dialog            |-> dialog,
     window            |-> window,
     notification      |-> notification,
     notify_count      |-> notify_count,
     desktop_result    |-> desktop_result]

\* the handler returns in state s; the actions bind s once, with \E over the
\* one state the handler returns in
Commit(s) ==
    /\ timer_seconds'     = s.timer_seconds
    /\ timer_running'     = s.timer_running
    /\ timer_job'         = s.timer_job
    /\ stopwatch_seconds' = s.stopwatch_seconds
    /\ stopwatch_running' = s.stopwatch_running
    /\ stopwatch_job'     = s.stopwatch_job
    /\ mode'              = s.mode
    /\ entry'             = s.entry
    /\ display'           = s.display
    /\ after_queue'       = s.after_queue
    /\ dialog'            = s.dialog
    /\ window'            = s.window
    /\ notification'      = s.notification
    /\ notify_count'      = s.notify_count
    /\ desktop_result'    = s.desktop_result

NoDialog == [kind |-> "none", title |-> "", message |-> ""]

\* messagebox.showerror("Invalid input", str(e))
ErrorDialog(msg) == [kind |-> "error", title |-> "Invalid input", message |-> msg]

\* messagebox.showinfo("Timer finished", "Time's up!")
FinishedDialog == [kind |-> "info", title |-> "Timer finished", message |-> "Time's up!"]

----------------------------------------------------------------------------
(* Tk's `after` queue *)

TimerPending(q) == {e \in q : e.fn = "tick_timer"}

StopwatchPending(q) == {e \in q : e.fn = "tick_stopwatch"}

\* root.after returns an id no pending callback and no job field holds.  Tk
\* numbers its ids upwards and never reuses one; ids are only compared for
\* equality, so the least id that is not held anywhere stands for the next.
FreshId(s) ==
    LET used == {e.id : e \in s.after_queue} \cup {s.timer_job, s.stopwatch_job}
    IN  CHOOSE i \in 1..(Cardinality(used) + 1) : i \notin used

\* root.after(1000, fn)
after(s, fn) == [id |-> FreshId(s), fn |-> fn]

\* root.after_cancel(id): an id that is not pending is ignored
after_cancel(q, id) == {e \in q : e.id # id}

----------------------------------------------------------------------------
(* Display *)

\* Format that takes the minutes from the total instead of the remainder
Format_MinutesOfTotal(total) ==
    LET t       == IF total > 0 THEN total ELSE 0
        hours   == t \div 3600
        minutes == t \div 60
        seconds == t % 60
    IN  Pad2(hours) \o <<":">> \o Pad2(minutes) \o <<":">> \o Pad2(seconds)

\* f"{hours:02d}:{minutes:02d}:{seconds:02d}" of max(total, 0)
Format(total) ==
    LET t       == IF total > 0 THEN total ELSE 0
        hours   == t \div 3600
        rem     == t % 3600
        minutes == rem \div 60
        seconds == rem % 60
    IN  Pad2(hours) \o <<":">> \o Pad2(minutes) \o <<":">> \o Pad2(seconds)

\* update_display that renders the timer whatever the mode
update_display_TimerOnly(s) == [s EXCEPT !.display = Format(s.timer_seconds)]

update_display(s) ==
    LET total == IF s.mode = "timer" THEN s.timer_seconds
                 ELSE s.stopwatch_seconds
    IN  [s EXCEPT !.display = Format(total)]

\* the entry accepts typing only in timer mode (state="normal")
EntryEnabled(s) == s.mode = "timer"

----------------------------------------------------------------------------
(* Completion notification *)

\* what notification.notify can do: absent when plyer failed to import,
\* otherwise it returns or raises
NotifyOutcomes(s) ==
    IF s.notification = "None" THEN {"unavailable"} ELSE {"sent", "failed"}

\* notify_finished without the try/except around notification.notify: the
\* exception leaves the handler before the popup
notify_finished_Uncaught(s, outcome) ==
    IF outcome = "failed"
    THEN [s EXCEPT !.notify_count = @ + 1, !.desktop_result = outcome]
    ELSE [s EXCEPT !.notify_count   = @ + 1,
                   !.desktop_result = outcome,
                   !.dialog         = FinishedDialog]

\* bell, desktop notification (exceptions swallowed), then the popup
notify_finished(s, outcome) ==
    [s EXCEPT !.notify_count   = @ + 1,
              !.desktop_result = outcome,
              !.dialog         = FinishedDialog]

----------------------------------------------------------------------------
(* Timer (countdown) *)

schedule_timer_tick(s) ==
    LET job == after(s, "tick_timer")
    IN  [s EXCEPT !.timer_job = job.id, !.after_queue = @ \cup {job}]

\* start_timer that parses the entry on every Start, paused or not
start_timer_Reparse(s) ==
    IF s.timer_running THEN s
    ELSE LET parsed == parse_time_input(s.entry)
         IN  IF ~parsed.ok THEN [s EXCEPT !.dialog = ErrorDialog(parsed.error)]
             ELSE LET s1 == [s EXCEPT !.timer_seconds = parsed.value]
                  IN  IF s1.timer_seconds <= 0 THEN s1
                      ELSE schedule_timer_tick(update_display(
                               [s1 EXCEPT !.timer_running = TRUE,
                                          !.notify_count  = 0]))

\* start_timer without the early return while running
start_timer_NoRunningGuard(s) ==
    LET parsed == IF s.timer_seconds <= 0
                  THEN parse_time_input(s.entry)
                  ELSE Accept(s.timer_seconds)
    IN  IF ~parsed.ok THEN [s EXCEPT !.dialog = ErrorDialog(parsed.error)]
        ELSE LET s1 == [s EXCEPT !.timer_seconds = parsed.value]
             IN  IF s1.timer_seconds <= 0 THEN s1
                 ELSE schedule_timer_tick(update_display(
                          [s1 EXCEPT !.timer_running = TRUE,
                                     !.notify_count  = 0]))

\* start_timer without the return on a zero duration
start_timer_NoZeroCheck(s) ==
    IF s.timer_running THEN s
    ELSE LET parsed == IF s.timer_seconds <= 0
                       THEN parse_time_input(s.entry)
                       ELSE Accept(s.timer_seconds)
         IN  IF ~parsed.ok THEN [s EXCEPT !.dialog = ErrorDialog(parsed.error)]
             ELSE schedule_timer_tick(update_display(
                      [s EXCEPT !.timer_seconds = parsed.value,
                                !.timer_running = TRUE,
                                !.notify_count  = 0]))

\* start_timer that swallows the ValueError without the error box
start_timer_Silent(s) ==
    IF s.timer_running THEN s
    ELSE LET parsed == IF s.timer_seconds <= 0
                       THEN parse_time_input(s.entry)
                       ELSE Accept(s.timer_seconds)
         IN  IF ~parsed.ok THEN s
             ELSE LET s1 == [s EXCEPT !.timer_seconds = parsed.value]
                  IN  IF s1.timer_seconds <= 0 THEN s1
                      ELSE schedule_timer_tick(update_display(
                               [s1 EXCEPT !.timer_running = TRUE,
                                          !.notify_count  = 0]))

start_timer(s) ==
    IF s.timer_running THEN s
    ELSE LET parsed == IF s.timer_seconds <= 0
                       THEN parse_time_input(s.entry)
                       ELSE Accept(s.timer_seconds)
         IN  IF ~parsed.ok THEN [s EXCEPT !.dialog = ErrorDialog(parsed.error)]
             ELSE LET s1 == [s EXCEPT !.timer_seconds = parsed.value]
                  IN  IF s1.timer_seconds <= 0 THEN s1
                      ELSE schedule_timer_tick(update_display(
                               [s1 EXCEPT !.timer_running = TRUE,
                                          !.notify_count  = 0]))

\* tick_timer that finishes only below zero
tick_timer_Late(s, outcome) ==
    IF ~s.timer_running THEN s
    ELSE LET s1 == [s EXCEPT !.timer_seconds = @ - 1]
         IN  IF s1.timer_seconds < 0
             THEN notify_finished(update_display(
                      [s1 EXCEPT !.timer_seconds = 0,
                                 !.timer_running = FALSE]), outcome)
             ELSE schedule_timer_tick(update_display(s1))

\* tick_timer that does not schedule the next tick
tick_timer_NoRearm(s, outcome) ==
    IF ~s.timer_running THEN s
    ELSE LET s1 == [s EXCEPT !.timer_seconds = @ - 1]
         IN  IF s1.timer_seconds <= 0
             THEN notify_finished(update_display(
                      [s1 EXCEPT !.timer_seconds = 0,
                                 !.timer_running = FALSE]), outcome)
             ELSE update_display(s1)

\* tick_timer that forgets to clear timer_running at completion
tick_timer_StaysRunning(s, outcome) ==
    IF ~s.timer_running THEN s
    ELSE LET s1 == [s EXCEPT !.timer_seconds = @ - 1]
         IN  IF s1.timer_seconds <= 0
             THEN notify_finished(update_display(
                      [s1 EXCEPT !.timer_seconds = 0]), outcome)
             ELSE schedule_timer_tick(update_display(s1))

tick_timer(s, outcome) ==
    IF ~s.timer_running THEN s
    ELSE LET s1 == [s EXCEPT !.timer_seconds = @ - 1]
         IN  IF s1.timer_seconds <= 0
             THEN notify_finished(update_display(
                      [s1 EXCEPT !.timer_seconds = 0,
                                 !.timer_running = FALSE]), outcome)
             ELSE schedule_timer_tick(update_display(s1))

\* pause_timer that forgets the job without cancelling it
pause_timer_NoCancel(s) ==
    IF s.timer_running
    THEN [s EXCEPT !.timer_running = FALSE, !.timer_job = None]
    ELSE s

pause_timer(s) ==
    IF s.timer_running
    THEN LET s1 == [s EXCEPT !.timer_running = FALSE]
         IN  IF s1.timer_job # None
             THEN [s1 EXCEPT !.after_queue = after_cancel(@, s1.timer_job),
                             !.timer_job   = None]
             ELSE s1
    ELSE s

\* reset_timer that zeroes the counter without pausing it
reset_timer_NoPause(s) ==
    LET s1 == [s EXCEPT !.timer_seconds = 0]
    IN  IF s1.mode = "timer" THEN update_display(s1) ELSE s1

reset_timer(s) ==
    LET s1 == [pause_timer(s) EXCEPT !.timer_seconds = 0]
    IN  IF s1.mode = "timer" THEN update_display(s1) ELSE s1

----------------------------------------------------------------------------
(* Stopwatch (count up) *)

schedule_stopwatch_tick(s) ==
    LET job == after(s, "tick_stopwatch")
    IN  [s EXCEPT !.stopwatch_job = job.id, !.after_queue = @ \cup {job}]

start_stopwatch(s) ==
    IF s.stopwatch_running THEN s
    ELSE schedule_stopwatch_tick(update_display(
             [s EXCEPT !.stopwatch_running = TRUE]))

\* tick_stopwatch that counts but does not schedule the next tick
tick_stopwatch_NoRearm(s) ==
    IF ~s.stopwatch_running THEN s
    ELSE update_display([s EXCEPT !.stopwatch_seconds = @ + 1])

tick_stopwatch(s) ==
    IF ~s.stopwatch_running THEN s
    ELSE schedule_stopwatch_tick(update_display(
             [s EXCEPT !.stopwatch_seconds = @ + 1]))

\* pause_stopwatch that clears the flag and leaves the callback scheduled
pause_stopwatch_KeepScheduled(s) ==
    IF s.stopwatch_running
    THEN [s EXCEPT !.stopwatch_running = FALSE]
    ELSE s

pause_stopwatch(s) ==
    IF s.stopwatch_running
    THEN LET s1 == [s EXCEPT !.stopwatch_running = FALSE]
         IN  IF s1.stopwatch_job # None
             THEN [s1 EXCEPT !.after_queue   = after_cancel(@, s1.stopwatch_job),
                             !.stopwatch_job = None]
             ELSE s1
    ELSE s

reset_stopwatch(s) ==
    LET s1 == [pause_stopwatch(s) EXCEPT !.stopwatch_seconds = 0]
    IN  IF s1.mode = "stopwatch" THEN update_display(s1) ELSE s1

----------------------------------------------------------------------------
(* Button handlers, dispatched by mode, and window close *)

\* switch_mode that pauses both counters
switch_mode_Pausing(s) == update_display(pause_stopwatch(pause_timer(s)))

\* switch_mode runs after the radio button has set self.mode; the label text
\* and the entry's enabled state it configures are functions of the mode
switch_mode(s) == update_display(s)

start(s) == IF s.mode = "timer" THEN start_timer(s) ELSE start_stopwatch(s)

pause(s) == IF s.mode = "timer" THEN pause_timer(s) ELSE pause_stopwatch(s)

\* reset that clears both counters whatever the mode
reset_Both(s) == reset_stopwatch(reset_timer(s))

reset(s) == IF s.mode = "timer" THEN reset_timer(s) ELSE reset_stopwatch(s)

\* on_close that cancels the timer only
on_close_TimerOnly(s) ==
    [pause_timer(s) EXCEPT !.window = "destroyed", !.dialog = NoDialog]

\* root.destroy() takes the message box down with the root window
on_close(s) ==
    [pause_stopwatch(pause_timer(s)) EXCEPT !.window = "destroyed",
                                            !.dialog = NoDialog]

----------------------------------------------------------------------------
(* Inputs *)

\* m:ss text of a duration of d seconds, d < 60
MinSecText(d) == <<"0", ":">> \o Pad2(d)

\* what the user types into the entry: the default "25", durations up to
\* MaxDuration in each of the three forms, and malformed texts
EntryTexts ==
    {<<"2", "5">>, <<"0">>, <<"0", ":", "0", ":", "0", "1">>,
     <<" ", "+", "0", ":", "0", "_", "2", " ">>}
    \cup {MinSecText(d) : d \in 0..(MaxDuration + 1)}
    \cup {<<>>, <<" ">>, <<"x">>, <<"-", "1">>, <<"0", ":", "6", "0">>,
          <<"0", ":", "6", "0", ":", "0", "0">>, <<"1", ":", "2", ":", "3", ":", "4">>}

\* the characters of the texts handed to the parser in SpecParse
Chars == {"0", "1", "2", "3", "5", "6", "9", ":", "-", " ", "x"}

\* the texts of n characters
TextsOfLen(n) == [1..n -> Chars]

NotParsed == [done |-> FALSE, ok |-> FALSE, value |-> 0, error |-> ""]

Parsed(r) == [done |-> TRUE, ok |-> r.ok, value |-> r.value, error |-> r.error]

----------------------------------------------------------------------------
(* Initial state: TimerApp.__init__ *)

InitApp ==
    /\ timer_seconds = 0
    /\ timer_running = FALSE
    /\ timer_job = None
    /\ stopwatch_seconds = 0
    /\ stopwatch_running = FALSE
    /\ stopwatch_job = None
    /\ mode = "timer"
    /\ entry = <<"2", "5">>
    /\ display = Format(0)
    /\ after_queue = {}
    /\ dialog = NoDialog
    /\ window = "open"
    /\ notify_count = 0
    /\ desktop_result = "none"
    /\ event = "init"

\* the import of plyer succeeded or raised ImportError
Init ==
    /\ InitApp
    /\ notification \in {"plyer", "None"}
    /\ text = <<>>
    /\ result = NotParsed
    /\ shown_seconds = 0

InitParse ==
    /\ InitApp
    /\ notification = "None"
    /\ \E n \in 0..MaxLen : text \in TextsOfLen(n)
    /\ result = NotParsed
    /\ shown_seconds = 0

----------------------------------------------------------------------------
(* Events of the Tk main loop *)

\* the root window exists and no message box holds the grab
UserReady == window = "open" /\ dialog.kind = "none"

\* the countdown a Start would begin is within the explored durations
WithinDuration(s) ==
    (s.mode = "timer" /\ ~s.timer_running /\ s.timer_seconds <= 0) =>
        LET parsed == parse_time_input(s.entry)
        IN  parsed.ok => parsed.value <= MaxDuration

\* the user replaces the text of the entry
EditEntry ==
    /\ UserReady
    /\ EntryEnabled(Self)
    /\ \E t \in EntryTexts :
       \E s \in {[Self EXCEPT !.entry = t]} : Commit(s)
    /\ event' = "edit"
    /\ UNCHANGED parseVars

\* a radio button is clicked: it sets self.mode, then runs its command
SwitchMode ==
    /\ UserReady
    /\ \E m \in {"timer", "stopwatch"} :
       \E s \in {switch_mode([Self EXCEPT !.mode = m])} : Commit(s)
    /\ event' = "switch_mode"
    /\ UNCHANGED parseVars

Start ==
    /\ UserReady
    /\ WithinDuration(Self)
    /\ \E s \in {start(Self)} : Commit(s)
    /\ event' = "start"
    /\ UNCHANGED parseVars

Pause ==
    /\ UserReady
    /\ \E s \in {pause(Self)} : Commit(s)
    /\ event' = "pause"
    /\ UNCHANGED parseVars

Reset ==
    /\ UserReady
    /\ \E s \in {reset(Self)} : Commit(s)
    /\ event' = "reset"
    /\ UNCHANGED parseVars

\* a pending timer callback comes due: Tk removes it and calls tick_timer
TickTimer ==
    /\ window = "open"
    /\ \E e \in TimerPending(after_queue) :
       \E outcome \in NotifyOutcomes(Self) :
       \E s \in {tick_timer([Self EXCEPT !.after_queue = @ \ {e}], outcome)} :
           Commit(s)
    /\ event' = "tick_timer"
    /\ UNCHANGED parseVars

\* a pending stopwatch callback comes due
TickStopwatch ==
    /\ window = "open"
    /\ stopwatch_running => stopwatch_seconds < MaxStopwatch
    /\ \E e \in StopwatchPending(after_queue) :
       \E s \in {tick_stopwatch([Self EXCEPT !.after_queue = @ \ {e}])} :
           Commit(s)
    /\ event' = "tick_stopwatch"
    /\ UNCHANGED parseVars

\* the user acknowledges the message box; showerror / showinfo returns
Dismiss ==
    /\ window = "open"
    /\ dialog.kind # "none"
    /\ \E s \in {[Self EXCEPT !.dialog = NoDialog]} : Commit(s)
    /\ event' = "dismiss"
    /\ UNCHANGED parseVars

\* WM_DELETE_WINDOW
Close ==
    /\ window = "open"
    /\ \E s \in {on_close(Self)} : Commit(s)
    /\ event' = "close"
    /\ UNCHANGED parseVars

Next ==
    \/ EditEntry
    \/ SwitchMode
    \/ Start
    \/ Pause
    \/ Reset
    \/ TickTimer
    \/ TickStopwatch
    \/ Dismiss
    \/ Close

Spec == Init /\ [][Next]_vars

\* the events of the timer alone: the mode stays "timer" and the stopwatch
\* idle
NextTimer ==
    \/ EditEntry
    \/ Start
    \/ Pause
    \/ Reset
    \/ TickTimer
    \/ Dismiss
    \/ Close

\* Tk's main loop runs every `after` callback that stays pending: a due
\* timer callback is not postponed for ever
SpecTimerFair == Init /\ [][NextTimer]_vars /\ WF_vars(TickTimer)

\* the parser applied to every text of Texts
ParseText ==
    /\ ~result.done
    /\ result' = Parsed(parse_time_input(text))
    /\ UNCHANGED <<text, shown_seconds>>
    /\ UNCHANGED appVars

NextParse == ParseText

SpecParse == InitParse /\ [][NextParse]_vars

\* hours whose every second is rendered: the first ones, then the first and
\* last two-digit and the first three-digit hour
RenderedHours == 0..MaxHours \cup {10, 99, 100}

\* counter values handed to the renderer; the negative ones only show the
\* clamp of max(total, 0)
Totals == (-3..-1) \cup {3600 * h + r : h \in RenderedHours, r \in 0..3599}

InitRender ==
    /\ InitApp
    /\ notification = "None"
    /\ shown_seconds \in Totals
    /\ text = <<>>
    /\ result = NotParsed

\* update_display with timer_seconds = shown_seconds in timer mode; the label text
\* is kept in text
RenderTotal ==
    /\ text = <<>>
    /\ text' = update_display([Self EXCEPT !.timer_seconds = shown_seconds]).display
    /\ UNCHANGED <<result, shown_seconds>>
    /\ UNCHANGED appVars

\* the rendered text typed into the entry and parsed
ParseRendered ==
    /\ text # <<>>
    /\ ~result.done
    /\ result' = Parsed(parse_time_input(text))
    /\ UNCHANGED <<text, shown_seconds>>
    /\ UNCHANGED appVars

NextRender ==
    \/ RenderTotal
    \/ ParseRendered

SpecRender == InitRender /\ [][NextRender]_vars

----------------------------------------------------------------------------
(* Properties of the countdown, the stopwatch and the mode switch (Spec) *)

\* the step is the timer tick that finds one second remaining
CountdownEnds == event' = "tick_timer" /\ timer_running /\ timer_seconds = 1

\* the step is a press of the named button while the timer is the active mode
TimerButton(name) == event' = name /\ mode = "timer"

\* the step is a press of the named button while the stopwatch is active
StopwatchButton(name) == event' = name /\ mode = "stopwatch"

\* C1: a countdown notifies exactly once, in the tick that takes
\* timer_seconds from 1 to 0; that tick clears timer_running and leaves no
\* timer callback pending, and until the next Start no step notifies again
\* and no timer tick runs.
C1_NotifyOnceAtZero ==
    [][/\ CountdownEnds =>
              /\ timer_seconds' = 0
              /\ ~timer_running'
              /\ TimerPending(after_queue') = {}
              /\ notify_count = 0 /\ notify_count' = 1
              /\ dialog' = FinishedDialog
       /\ notify_count' # notify_count =>
              CountdownEnds \/ (TimerButton("start") /\ notify_count' = 0)
       /\ (~timer_running /\ event' # "start") =>
              /\ notify_count' = notify_count
              /\ event' # "tick_timer"
              /\ timer_seconds' <= timer_seconds]_vars

C1_Witness ==
    /\ event = "tick_timer"
    /\ timer_seconds = 0
    /\ ~timer_running
    /\ notify_count = 1
    /\ dialog = FinishedDialog
    /\ TimerPending(after_queue) = {}

\* C2: Pause keeps the value of the counter, a paused counter keeps its
\* value through every step but its own Reset, and the Start that resumes a
\* paused countdown sets it running with the same timer_seconds whatever the
\* entry holds; the stopwatch likewise.
C2_PauseResumeKeepsValue ==
    [][/\ event' = "pause" =>
              /\ timer_seconds' = timer_seconds
              /\ stopwatch_seconds' = stopwatch_seconds
       /\ (~timer_running /\ timer_seconds > 0 /\ ~TimerButton("reset")) =>
              timer_seconds' = timer_seconds
       /\ (~stopwatch_running /\ ~StopwatchButton("reset")) =>
              stopwatch_seconds' = stopwatch_seconds
       /\ (TimerButton("start") /\ ~timer_running /\ timer_seconds > 0) =>
              timer_running' /\ timer_seconds' = timer_seconds
       /\ (StopwatchButton("start") /\ ~stopwatch_running) =>
              stopwatch_running' /\ stopwatch_seconds' = stopwatch_seconds]_vars

\* a countdown resumed, after at least one tick, over an entry that no
\* longer parses
C2_Witness ==
    /\ event = "start"
    /\ mode = "timer"
    /\ timer_running
    /\ timer_seconds \in 1..(MaxDuration - 1)
    /\ ~parse_time_input(entry).ok

\* C3: Reset leaves the active counter at 0, not running, with no callback
\* pending, and a stopped counter at 0 stays 0 until a Start.
C3_ResetZeroes ==
    [][/\ TimerButton("reset") =>
              /\ timer_seconds' = 0
              /\ ~timer_running'
              /\ TimerPending(after_queue') = {}
       /\ StopwatchButton("reset") =>
              /\ stopwatch_seconds' = 0
              /\ ~stopwatch_running'
              /\ StopwatchPending(after_queue') = {}
       /\ (~timer_running /\ timer_seconds = 0 /\ event' # "start") =>
              timer_seconds' = 0 /\ ~timer_running'
       /\ (~stopwatch_running /\ stopwatch_seconds = 0 /\ event' # "start") =>
              stopwatch_seconds' = 0 /\ ~stopwatch_running']_vars

\* the timer has been reset while the stopwatch goes on counting
C3_Witness ==
    /\ event = "reset"
    /\ mode = "timer"
    /\ timer_seconds = 0
    /\ ~timer_running
    /\ TimerPending(after_queue) = {}
    /\ stopwatch_running
    /\ stopwatch_seconds > 0

\* C4: Pause and Reset take the counter's pending callback out of the queue,
\* no tick of a counter runs while that counter is not running, and after a
\* Start the only pending callback of the counter is the one Start scheduled.
C4_NoStaleTick ==
    [][/\ (TimerButton("pause") \/ TimerButton("reset")) =>
              TimerPending(after_queue') = {}
       /\ (StopwatchButton("pause") \/ StopwatchButton("reset")) =>
              StopwatchPending(after_queue') = {}
       /\ ~timer_running => event' # "tick_timer"
       /\ ~stopwatch_running => event' # "tick_stopwatch"
       /\ (TimerButton("start") /\ timer_running') =>
              TimerPending(after_queue') =
                  {[id |-> timer_job', fn |-> "tick_timer"]}
       /\ (StopwatchButton("start") /\ stopwatch_running') =>
              StopwatchPending(after_queue') =
                  {[id |-> stopwatch_job', fn |-> "tick_stopwatch"]}]_vars

\* a countdown paused part-way, its callback gone, the stopwatch's kept
C4_Witness ==
    /\ event = "pause"
    /\ mode = "timer"
    /\ ~timer_running
    /\ timer_seconds > 0
    /\ TimerPending(after_queue) = {}
    /\ StopwatchPending(after_queue) # {}

\* C5: each counter has at most one pending callback in every reachable
\* state.
C5_OnePendingCallback ==
    /\ Cardinality(TimerPending(after_queue)) <= 1
    /\ Cardinality(StopwatchPending(after_queue)) <= 1

\* both counters running, each with its one callback, after a Start
C5_Witness ==
    /\ event = "start"
    /\ timer_running
    /\ stopwatch_running
    /\ Cardinality(TimerPending(after_queue)) = 1
    /\ Cardinality(StopwatchPending(after_queue)) = 1

\* C6: Start in timer mode with timer_seconds = 0 and an entry that parses
\* to 0 seconds changes nothing: no counter, flag, job, callback, dialog,
\* notification or display changes.
C6_ZeroDurationNoOp ==
    [][(/\ TimerButton("start")
        /\ ~timer_running
        /\ timer_seconds = 0
        /\ parse_time_input(entry) = Accept(0)) =>
           UNCHANGED <<timer_seconds, timer_running, timer_job,
                       stopwatch_seconds, stopwatch_running, stopwatch_job,
                       mode, entry, display, after_queue, dialog, window,
                       notify_count, desktop_result>>]_vars

C6_Witness ==
    /\ event = "start"
    /\ mode = "timer"
    /\ parse_time_input(entry) = Accept(0)
    /\ timer_seconds = 0
    /\ ~timer_running
    /\ TimerPending(after_queue) = {}
    /\ dialog = NoDialog

\* C7: Start in timer mode with timer_seconds = 0 and an entry the parser
\* rejects opens the error box with the parser's message and changes neither
\* counter, flag, job nor the callback queue.
C7_MalformedStart ==
    [][(/\ TimerButton("start")
        /\ ~timer_running
        /\ timer_seconds = 0
        /\ ~parse_time_input(entry).ok) =>
           /\ dialog' = ErrorDialog(parse_time_input(entry).error)
           /\ dialog'.message # ""
           /\ UNCHANGED <<timer_seconds, timer_running, timer_job,
                          stopwatch_seconds, stopwatch_running, stopwatch_job,
                          mode, entry, display, after_queue, window,
                          notify_count, desktop_result>>]_vars

\* the error box is up over an idle timer while the stopwatch is running
C7_Witness ==
    /\ event = "start"
    /\ mode = "timer"
    /\ dialog.kind = "error"
    /\ ~parse_time_input(entry).ok
    /\ timer_seconds = 0
    /\ ~timer_running
    /\ stopwatch_running

\* C8: a mode switch changes neither counter, running flag, job nor the
\* callback queue; a running counter always has its callback pending and a
\* tick counts whichever mode is displayed.
C8_SwitchModeFrame ==
    [][/\ event' = "switch_mode" =>
              UNCHANGED <<timer_seconds, timer_running, timer_job,
                          stopwatch_seconds, stopwatch_running, stopwatch_job,
                          after_queue>>
       /\ timer_running' => TimerPending(after_queue') # {}
       /\ stopwatch_running' => StopwatchPending(after_queue') # {}
       /\ (event' = "tick_timer" /\ timer_running) =>
              timer_seconds' = timer_seconds - 1
       /\ (event' = "tick_stopwatch" /\ stopwatch_running) =>
              stopwatch_seconds' = stopwatch_seconds + 1]_vars

\* the countdown has ticked while the stopwatch is the displayed mode
C8_Witness ==
    /\ event = "tick_timer"
    /\ mode = "stopwatch"
    /\ timer_running
    /\ timer_seconds \in 1..(MaxDuration - 1)

----------------------------------------------------------------------------
(* Properties of the parser (SpecParse) *)

\* the fields of the stripped text
Fields(t) == Split(Strip(t), ":")

\* the integer the i-th field of t reads as; the field is a valid literal
FieldValue(t, i) == IntParse(Fields(t)[i]).value

FieldIsInt(t, i) == IntParse(Fields(t)[i]).ok

\* the seconds the three forms stand for
SecondsOf(t) ==
    LET n == Len(Fields(t))
    IN  IF n = 1 THEN 60 * FieldValue(t, 1)
        ELSE IF n = 2 THEN 60 * FieldValue(t, 1) + FieldValue(t, 2)
        ELSE 3600 * FieldValue(t, 1) + 60 * FieldValue(t, 2) + FieldValue(t, 3)

Str25 == <<"2", "5">>

Str0230 == <<"0", "2", ":", "3", "0">>

Str010203 == <<"0", "1", ":", "0", "2", ":", "0", "3">>

\* C9: an accepted text of one, two or three fields yields 60*m, 60*m+s or
\* 3600*h+60*m+s whole seconds, never negative; 25 gives 1500, 02:30 gives
\* 150 and 01:02:03 gives 3723.
C9_ParsedSeconds ==
    /\ (result.done /\ result.ok) =>
           /\ Len(Fields(text)) \in 1..3
           /\ result.value = SecondsOf(text)
           /\ result.value >= 0
    /\ (result.done /\ text = Str25) => result = Parsed(Accept(1500))
    /\ (result.done /\ text = Str0230) => result = Parsed(Accept(150))
    /\ result.done => parse_time_input(Str010203) = Accept(3723)

\* the three-field text 1:2:3 has been parsed to 3723 seconds
C9_Witness ==
    /\ result.done
    /\ result.ok
    /\ text = <<"1", ":", "2", ":", "3">>
    /\ result.value = 3723

\* some field of t reads as a negative integer
HasNegativeField(t) ==
    \E i \in 1..Len(Fields(t)) : FieldIsInt(t, i) /\ FieldValue(t, i) < 0

\* the i-th field of t reads as an integer outside 0..59
FieldOutOfRange(t, i) == FieldIsInt(t, i) /\ FieldValue(t, i) \notin 0..59

\* rejected in every form by the code: empty text, more than three fields,
\* a negative field, seconds outside 0..59, minutes of HH:MM:SS outside 0..59
RejectedByRule(t) ==
    LET n == Len(Fields(t))
    IN  \/ Strip(t) = <<>>
        \/ n > 3
        \/ HasNegativeField(t)
        \/ n \in {2, 3} /\ FieldOutOfRange(t, n)
        \/ n = 3 /\ FieldOutOfRange(t, 2)

\* the minutes field of an MM:SS text is outside 0..59
MinSecMinutesOutOfRange(t) == Len(Fields(t)) = 2 /\ FieldOutOfRange(t, 1)

----------------------------------------------------------------------------
(* Properties of teardown, the counters' ranges and the stopwatch (Spec) *)

\* C11: once the window is closed no callback of either counter is pending
\* and neither counter is running.
C11_CloseCancelsAll ==
    window = "destroyed" =>
        /\ after_queue = {}
        /\ ~timer_running
        /\ ~stopwatch_running

\* the window was closed over a countdown and a stopwatch that had both
\* counted
C11_Witness ==
    /\ window = "destroyed"
    /\ event = "close"
    /\ timer_seconds \in 1..(MaxDuration - 1)
    /\ stopwatch_seconds > 0
    /\ stopwatch_job = None
    /\ timer_job = None
    /\ after_queue = {}

\* C12: both counters are non-negative in every reachable state.
C12_NonNegative ==
    /\ timer_seconds \in Nat
    /\ stopwatch_seconds \in Nat

\* a Start over the entry -1 has left the error box and a timer still at 0
C12_Witness ==
    /\ event = "start"
    /\ entry = <<"-", "1">>
    /\ dialog = ErrorDialog("Minutes must be >= 0")
    /\ timer_seconds = 0
    /\ stopwatch_seconds > 0

\* C13: a stopwatch tick adds exactly 1, leaves the stopwatch running with
\* its next callback pending, and opens no message box and counts no
\* notification; the stopwatch stops only by its Pause, its Reset or the
\* window close, and no step in stopwatch mode notifies.
C13_StopwatchNeverFinishes ==
    [][/\ event' = "tick_stopwatch" =>
              /\ stopwatch_seconds' = stopwatch_seconds + 1
              /\ stopwatch_running'
              /\ StopwatchPending(after_queue') =
                     {[id |-> stopwatch_job', fn |-> "tick_stopwatch"]}
              /\ notify_count' = notify_count
              /\ dialog' = dialog
       /\ (stopwatch_running /\ ~stopwatch_running') =>
              \/ StopwatchButton("pause")
              \/ StopwatchButton("reset")
              \/ event' = "close"
       /\ notify_count' > notify_count => event' = "tick_timer"]_vars

\* the stopwatch has ticked up to the explored bound and is still armed
C13_Witness ==
    /\ event = "tick_stopwatch"
    /\ stopwatch_seconds = MaxStopwatch
    /\ stopwatch_running
    /\ StopwatchPending(after_queue) # {}
    /\ dialog = NoDialog

----------------------------------------------------------------------------
(* Properties of the renderer (SpecRender) *)

\* every character of s is a decimal digit
AllDigits(s) == \A i \in 1..Len(s) : IsDigit(s[i])

\* max(total, 0) of the value handed to the renderer
Clamped == IF shown_seconds > 0 THEN shown_seconds ELSE 0

\* C14: the rendered text is three colon-separated digit fields, hours of at
\* least two digits and minutes and seconds of exactly two, that read as
\* s div 3600, (s mod 3600) div 60 and s mod 60 for s = max(shown_seconds, 0), with
\* minutes and seconds in 0..59; the parser returns s for the rendered text.
C14_RenderRoundTrip ==
    /\ text # <<>> =>
           /\ Len(Fields(text)) = 3
           /\ \A i \in 1..3 : AllDigits(Fields(text)[i])
           /\ Len(Fields(text)[1]) >= 2
           /\ Len(Fields(text)[1]) > 2 => Fields(text)[1][1] # "0"
           /\ Len(Fields(text)[2]) = 2
           /\ Len(Fields(text)[3]) = 2
           /\ FieldValue(text, 1) = Clamped \div 3600
           /\ FieldValue(text, 2) = (Clamped % 3600) \div 60
           /\ FieldValue(text, 3) = Clamped % 60
           /\ FieldValue(text, 2) \in 0..59
           /\ FieldValue(text, 3) \in 0..59
    /\ result.done => result = Parsed(Accept(Clamped))

\* 3723 seconds rendered as 01:02:03 and parsed back to 3723
C14_Witness ==
    /\ shown_seconds = 3723
    /\ text = Str010203
    /\ result = Parsed(Accept(3723))

----------------------------------------------------------------------------
(* Further properties of the two counters (Spec) *)

\* C15: whatever the desktop notification does at completion (sent, failed,
\* or unavailable because plyer is absent), the completing tick ends with
\* timer_seconds = 0, the timer stopped and the popup shown, and leaves the
\* stopwatch's value, flag, job and pending callback as they were.
C15_NotifyFailureHarmless ==
    [][CountdownEnds =>
           /\ desktop_result' \in {"sent", "failed", "unavailable"}
           /\ desktop_result' = "unavailable" <=> notification = "None"
           /\ timer_seconds' = 0
           /\ ~timer_running'
           /\ dialog' = FinishedDialog
           /\ UNCHANGED <<stopwatch_seconds, stopwatch_running, stopwatch_job>>
           /\ StopwatchPending(after_queue') = StopwatchPending(after_queue)]_vars

\* the countdown completed with a failed desktop notification while the
\* stopwatch was running
C15_Witness ==
    /\ event = "tick_timer"
    /\ desktop_result = "failed"
    /\ timer_seconds = 0
    /\ ~timer_running
    /\ dialog = FinishedDialog
    /\ stopwatch_running
    /\ stopwatch_seconds > 0
    /\ StopwatchPending(after_queue) # {}

\* the timer leaves the running state by completing, not by the user
TimerInterrupted ==
    TimerButton("pause") \/ TimerButton("reset") \/ event' = "close"

\* C16: every timer tick of a running countdown takes exactly one second
\* off, re-arms the callback exactly when the new value is above 0 and
\* completes exactly when it is 0, so a countdown of N seconds completes at
\* its N-th tick; a running countdown stops only by completing or by Pause,
\* Reset or close, and with every pending callback eventually fired it does
\* stop.
C16_CountdownCompletes ==
    /\ [][/\ (event' = "tick_timer" /\ timer_running) =>
                 /\ timer_seconds' = timer_seconds - 1
                 /\ timer_seconds' >= 0
                 /\ TimerPending(after_queue') # {} <=> timer_seconds' > 0
                 /\ timer_running' <=> timer_seconds' > 0
                 /\ notify_count' = 1 <=> timer_seconds' = 0
          /\ (timer_running /\ ~timer_running') =>
                 CountdownEnds \/ TimerInterrupted
          /\ (TimerButton("start") /\ ~timer_running /\ timer_seconds = 0
                /\ timer_running') =>
                 timer_seconds' = parse_time_input(entry).value]_vars
    /\ timer_running ~> ~timer_running

\* a countdown of MaxDuration seconds has completed
C16_Witness ==
    /\ event = "tick_timer"
    /\ parse_time_input(entry) = Accept(MaxDuration)
    /\ timer_seconds = 0
    /\ ~timer_running
    /\ notify_count = 1

\* C17: in every state between handlers a counter is running exactly when a
\* callback of it is pending, and that callback is the one its job field
\* names; the flag rises only at the counter's Start and falls only at its
\* Pause, its Reset, the close or, for the timer, the completing tick; no
\* tick runs for a counter that is not running.
C17_RunningIffPending ==
    /\ [](/\ timer_running <=> TimerPending(after_queue) # {}
          /\ stopwatch_running <=> StopwatchPending(after_queue) # {}
          /\ timer_running =>
                 TimerPending(after_queue) =
                     {[id |-> timer_job, fn |-> "tick_timer"]}
          /\ stopwatch_running =>
                 StopwatchPending(after_queue) =
                     {[id |-> stopwatch_job, fn |-> "tick_stopwatch"]})
    /\ [][/\ (~timer_running /\ timer_running') => TimerButton("start")
          /\ (~stopwatch_running /\ stopwatch_running') =>
                 StopwatchButton("start")
          /\ (timer_running /\ ~timer_running') =>
                 CountdownEnds \/ TimerInterrupted
          /\ (stopwatch_running /\ ~stopwatch_running') =>
                 \/ StopwatchButton("pause")
                 \/ StopwatchButton("reset")
                 \/ event' = "close"
          /\ event' = "tick_timer" => timer_running
          /\ event' = "tick_stopwatch" => stopwatch_running]_vars

\* the stopwatch was paused while the countdown ran on: one flag down with
\* nothing pending, the other up with its callback
C17_Witness ==
    /\ event = "pause"
    /\ mode = "stopwatch"
    /\ ~stopwatch_running
    /\ stopwatch_seconds > 0
    /\ StopwatchPending(after_queue) = {}
    /\ timer_running
    /\ TimerPending(after_queue) # {}

\* the step is a button press or a tick of the timer
TimerStep ==
    \/ TimerButton("start") \/ TimerButton("pause") \/ TimerButton("reset")
    \/ event' = "tick_timer"

\* the step is a button press or a tick of the stopwatch
StopwatchStep ==
    \/ StopwatchButton("start") \/ StopwatchButton("pause")
    \/ StopwatchButton("reset")
    \/ event' = "tick_stopwatch"

\* C18: a button press or tick of one counter leaves the other counter's
\* seconds, running flag, job and pending callback unchanged, also when the
\* countdown completes while the stopwatch is displayed.
C18_CountersIndependent ==
    [][/\ TimerStep =>
              /\ UNCHANGED <<stopwatch_seconds, stopwatch_running, stopwatch_job>>
              /\ StopwatchPending(after_queue') = StopwatchPending(after_queue)
       /\ StopwatchStep =>
              /\ UNCHANGED <<timer_seconds, timer_running, timer_job>>
              /\ TimerPending(after_queue') = TimerPending(after_queue)]_vars

\* the countdown completed while the stopwatch, displayed and running, kept
\* its callback
C18_Witness ==
    /\ event = "tick_timer"
    /\ mode = "stopwatch"
    /\ notify_count = 1
    /\ timer_seconds = 0
    /\ stopwatch_running
    /\ stopwatch_seconds > 0
    /\ StopwatchPending(after_queue) # {}

\* the value of the counter the mode selects
ActiveSeconds == IF mode = "timer" THEN timer_seconds ELSE stopwatch_seconds

\* C19: in every state between handlers the display is the rendering of the
\* counter the current mode selects; a tick of the other counter leaves the
\* displayed text as it was.
C19_DisplayCurrent ==
    /\ [](display = Format(ActiveSeconds))
    /\ [][/\ (event' = "tick_timer" /\ mode = "stopwatch") =>
                 display' = display
          /\ (event' = "tick_stopwatch" /\ mode = "timer") =>
                 display' = display]_vars

\* the countdown ticked behind the stopwatch display, which shows the
\* stopwatch's different value
C19_Witness ==
    /\ event = "tick_timer"
    /\ mode = "stopwatch"
    /\ timer_seconds # stopwatch_seconds
    /\ timer_seconds > 0
    /\ stopwatch_seconds > 0
    /\ display = Format(stopwatch_seconds)
    /\ display # Format(timer_seconds)

\* the timer is stopped at 0 with nothing pending, as after construction
TimerIdle ==
    /\ timer_seconds = 0
    /\ ~timer_running
    /\ TimerPending(after_queue) = {}

\* C20: the completing tick leaves the timer at 0, stopped, with no callback
\* pending, and no Reset is needed: a Start pressed after a completed
\* countdown parses the entry and, for a positive duration, runs a new
\* countdown from the parsed value with one callback pending.
C20_RestartAfterFinish ==
    /\ [](notify_count = 1 => TimerIdle)
    /\ [][/\ CountdownEnds => TimerIdle'
          /\ (TimerButton("start") /\ notify_count = 1
                /\ parse_time_input(entry).ok
                /\ parse_time_input(entry).value > 0) =>
                 /\ timer_running'
                 /\ timer_seconds' = parse_time_input(entry).value
                 /\ TimerPending(after_queue') =
                        {[id |-> timer_job', fn |-> "tick_timer"]}
                 /\ timer_job' # timer_job
                 /\ notify_count' = 0
                 /\ display' = Format(timer_seconds')]_vars

\* a countdown restarted by Start alone after one had completed: with the
\* stopwatch never started, the job differs from the first callback's id
\* only because the completed countdown's id is still in timer_job
C20_Witness ==
    /\ event = "start"
    /\ mode = "timer"
    /\ timer_running
    /\ timer_seconds = parse_time_input(entry).value
    /\ stopwatch_job = None
    /\ StopwatchPending(after_queue) = {}
    /\ timer_job = 2

====
